---- MODULE Spec2Model ----
(***************************************************************************)
(* Terminal facade of ghostty-web (src/lib/interfaces.ts, class Terminal,  *)
(* lines 2684-3072) together with the part of SelectionManager (lines      *)
(* 96-452) that the facade drives.                                         *)
(*                                                                         *)
(* open() is an async method: the code before `await Ghostty.load` runs in *)
(* the caller's turn (action open), the code after it runs in a later turn *)
(* (action openResume).  Every other method runs to completion in one      *)
(* step.  The animation-frame callback is the action frame.                *)
(*                                                                         *)
(* Canvases, engine instances and animation-frame callbacks are counted:   *)
(* a field of the terminal says whether it holds one of them, the counter  *)
(* says how many exist, so that the ones no field refers to are visible.   *)
(*                                                                         *)
(* The specifications share the state:                                     *)
(*   Spec       the life cycle of the terminal: open, write, resize,       *)
(*              reset, dispose, the render loop;                           *)
(*   SelSpec    an open terminal under the pointer events and the          *)
(*              selection API, with writes that scroll the screen;         *)
(*   WordSpec   clicks, drags and double-clicks on screens of every kind   *)
(*              of row, and clicks beside the canvas;                      *)
(*   CopySpec   the copies to the clipboard in every kind of browser;      *)
(*   TextSpec   getSelection on every screen and every pair of endpoints;  *)
(*   ViewSpec   lines written to an empty screen, the viewport scrolled    *)
(*              by half rows, cells clicked and read;                      *)
(*   ResizeSpec a dragged selection and the terminal resized under it;     *)
(*   ScenSpec   the 100-line scenario of the scrollback test;              *)
(*   RenderSpec a selection dragged and cleared between rendered frames;   *)
(*   DisposeSpec pointer, keyboard and bell events around dispose();       *)
(*   WsSpec     the demo server of src/unnamed/part_000: the frames of a   *)
(*              browser delivered in chunks to MinimalWebSocket, and the   *)
(*              shell of the PTY session.                                  *)
(* The Terminal of src/ has no viewport: the viewport operations and the   *)
(* engine's screen, cursor and scrollback follow the specification.        *)
(* A text is the sequence of the code points of its characters.            *)
(***************************************************************************)
EXTENDS Integers, Sequences, FiniteSets, TLC

\* ------------------------------------------------------------------ bounds
MaxDim    == 2      \* cols and rows range over 1..MaxDim
MaxOpens  == 2      \* open() calls that pass the guards
MaxWrites == 2      \* write() calls that are applied or submitted during a load
MaxFrames == 2      \* frames that the browser sends on one connection
MaxLines  == 4      \* lines written to a terminal whose viewport is scrolled

DimSet     == 1..MaxDim
InitCols   == MaxDim     \* options.cols given to the constructor
InitRows   == MaxDim     \* options.rows given to the constructor
FailPoints == {"none", "load", "renderer"}

NoCell == [col |-> -1, row |-> -1]
NoSel  == [startCol |-> -1, startRow |-> -1, endCol |-> -1, endRow |-> -1]
NoOut  == [op |-> "new", err |-> "none", renders |-> <<>>, events |-> <<>>,
           addonsDisposed |-> FALSE, text |-> <<>>, copied |-> <<>>,
           selectionChanged |-> 0, coords |-> NoSel, clip |-> <<>>,
           smChanged |-> 0]
NoLine  == << >>            \* getLine(row) returned no data: no cells, where
                            \* a row of the screen has one cell at least
Space   == 32               \* the code point of ' '
Newline == 10               \* the code point of '\n'
NoClick == [col |-> -1, row |-> -1, phase |-> "none"]
\* new MinimalWebSocket(socket) in a PTY session that has just started:
\* the buffer is empty, the socket is open and nothing went through it, the
\* shell runs.  stream and messages record what the socket delivered and
\* what the 'message' listeners were given.
NewSocket ==
  [ buffer |-> <<>>, ended |-> FALSE, destroyed |-> FALSE, wire |-> <<>>,
    messages |-> <<>>, stream |-> <<>>, inflight |-> <<>>, peerFrames |-> 0,
    stdin |-> <<>>, exited |-> FALSE ]
\* A browser whose Clipboard API takes the text.
Working == [api |-> "resolves", exec |-> "true"]

VARIABLES
  \* Terminal fields
  cols, rows,            \* this.cols / this.rows
  element,               \* this.element is set
  ghostty,               \* this.ghostty is set
  wasmTerm,              \* this.wasmTerm is set
  renderer,              \* this.renderer is set
  inputHandler,          \* this.inputHandler is set
  selectionManager,      \* this.selectionManager is set
  canvas,                \* this.canvas is set
  isOpen, isDisposed,
  animationFrameId,      \* this.animationFrameId: "undefined", the handle of
                         \* a callback still "scheduled", or a "stale" handle
  addons,                \* this.addons is not empty
  emittersDisposed,      \* the four Terminal emitters have been disposed
  \* host environment
  pendingOpens,          \* open() calls suspended at `await Ghostty.load`
  dom,                   \* number of canvases that are children of the
                         \* container; this.canvas, when set, is one of them
  liveEngines,           \* number of engine instances created and not freed;
                         \* this.wasmTerm, when set, is one of them
  engCols, engRows,      \* dimensions of the engine instance this.wasmTerm
  frames,                \* number of animation-frame callbacks scheduled
  \* the SelectionManager object created last
  smCreated, smDisposed,
  smWasm,                \* the engine instance it reads: "none", "current"
                         \* (this.wasmTerm), "leaked" (live, referenced by
                         \* no field of the terminal) or "freed"
  selectionStart, selectionEnd, isSelecting, previousSelection,
  highlighted,           \* the bounds of the selection that the last render
                         \* has highlighted
  ws,                    \* the demo server's WebSocket connection
  \* the engine instance the selection manager reads
  lines,                 \* its screen rows: a sequence of cells per row, or
                         \* NoLine for a row that getLine returns no data for
  scrollback,            \* the rows that have scrolled off the top of the
                         \* screen, oldest first
  cursorY,               \* the screen row of its cursor
  \* the viewport
  viewportY2,            \* twice the viewport offset: the offset is a number
                         \* of half rows up from the bottom
  \* the browser
  clipboard,             \* what navigator.clipboard.writeText does ("absent"
                         \* when there is no Clipboard API) and what
                         \* document.execCommand('copy') does
  \* the pointer
  click,                 \* the press / release pair in progress, if no move
                         \* came between: its position and its phase
  \* observation of the calls
  out,                   \* the last call: its error, its renders, its events
  opensStarted,          \* open() calls that passed the guards
  wasOpened,             \* some open() ran to its end without failing
  preReady,              \* writes submitted while a load was pending
  applied,               \* writes handed to the engine, in order
  callbacksFired,        \* write completion callbacks invoked, in order
  fullPending            \* the dimensions changed and no full render of the
                         \* new grid has been made yet

vars == << cols, rows, element, ghostty, wasmTerm, renderer,
           inputHandler, selectionManager, canvas, isOpen, isDisposed,
           animationFrameId, addons, emittersDisposed, pendingOpens, dom,
           liveEngines, engCols, engRows, frames,
           smCreated, smDisposed, smWasm, selectionStart, selectionEnd,
           isSelecting, previousSelection, highlighted, ws,
           lines, scrollback, cursorY,
           viewportY2, clipboard, click,
           out, opensStarted, wasOpened, preReady, applied, callbacksFired,
           fullPending >>

\* The current state as one record, so that a method is a function of it.
Cur ==
  [ cols |-> cols, rows |-> rows,
    element |-> element, ghostty |-> ghostty, wasmTerm |-> wasmTerm,
    renderer |-> renderer, inputHandler |-> inputHandler,
    selectionManager |-> selectionManager, canvas |-> canvas,
    isOpen |-> isOpen, isDisposed |-> isDisposed,
    animationFrameId |-> animationFrameId, addons |-> addons,
    emittersDisposed |-> emittersDisposed, pendingOpens |-> pendingOpens,
    dom |-> dom, liveEngines |-> liveEngines,
    engCols |-> engCols, engRows |-> engRows,
    frames |-> frames, smCreated |-> smCreated, smDisposed |-> smDisposed,
    smWasm |-> smWasm, selectionStart |-> selectionStart,
    selectionEnd |-> selectionEnd, isSelecting |-> isSelecting,
    previousSelection |-> previousSelection, highlighted |-> highlighted,
    ws |-> ws, lines |-> lines,
    scrollback |-> scrollback, cursorY |-> cursorY,
    viewportY2 |-> viewportY2, clipboard |-> clipboard,
    click |-> click, out |-> out,
    opensStarted |-> opensStarted, wasOpened |-> wasOpened,
    preReady |-> preReady, applied |-> applied,
    callbacksFired |-> callbacksFired, fullPending |-> fullPending ]

Commit(s) ==
  /\ cols' = s.cols /\ rows' = s.rows
  /\ element' = s.element /\ ghostty' = s.ghostty /\ wasmTerm' = s.wasmTerm
  /\ renderer' = s.renderer /\ inputHandler' = s.inputHandler
  /\ selectionManager' = s.selectionManager /\ canvas' = s.canvas
  /\ isOpen' = s.isOpen /\ isDisposed' = s.isDisposed
  /\ animationFrameId' = s.animationFrameId /\ addons' = s.addons
  /\ emittersDisposed' = s.emittersDisposed
  /\ pendingOpens' = s.pendingOpens /\ dom' = s.dom
  /\ liveEngines' = s.liveEngines
  /\ engCols' = s.engCols /\ engRows' = s.engRows
  /\ frames' = s.frames
  /\ smCreated' = s.smCreated /\ smDisposed' = s.smDisposed
  /\ smWasm' = s.smWasm
  /\ selectionStart' = s.selectionStart /\ selectionEnd' = s.selectionEnd
  /\ isSelecting' = s.isSelecting
  /\ previousSelection' = s.previousSelection
  /\ highlighted' = s.highlighted /\ ws' = s.ws
  /\ lines' = s.lines /\ scrollback' = s.scrollback
  /\ cursorY' = s.cursorY /\ viewportY2' = s.viewportY2
  /\ clipboard' = s.clipboard
  /\ click' = s.click
  /\ out' = s.out
  /\ opensStarted' = s.opensStarted /\ wasOpened' = s.wasOpened
  /\ preReady' = s.preReady /\ applied' = s.applied
  /\ callbacksFired' = s.callbacksFired
  /\ fullPending' = s.fullPending

\* The state at the start of a call named op.
Call(op) == [Cur EXCEPT !.out = [NoOut EXCEPT !.op = op]]

\* The fields of a terminal that has been constructed and not opened.
NewTerminal ==
  [ cols |-> InitCols, rows |-> InitRows,
    element |-> FALSE, ghostty |-> FALSE, wasmTerm |-> FALSE,
    renderer |-> FALSE, inputHandler |-> FALSE,
    selectionManager |-> FALSE, canvas |-> FALSE,
    isOpen |-> FALSE, isDisposed |-> FALSE,
    animationFrameId |-> "undefined", addons |-> FALSE,
    emittersDisposed |-> FALSE, pendingOpens |-> 0,
    dom |-> 0, liveEngines |-> 0, engCols |-> 0, engRows |-> 0,
    frames |-> 0, smCreated |-> FALSE, smDisposed |-> FALSE,
    smWasm |-> "none", selectionStart |-> NoCell,
    selectionEnd |-> NoCell, isSelecting |-> FALSE,
    previousSelection |-> NoSel, highlighted |-> NoSel,
    ws |-> NewSocket, lines |-> <<>>,
    scrollback |-> <<>>, cursorY |-> 0, viewportY2 |-> 0,
    clipboard |-> Working, click |-> NoClick, out |-> NoOut,
    opensStarted |-> 0, wasOpened |-> FALSE,
    preReady |-> <<>>, applied |-> <<>>,
    callbacksFired |-> <<>>, fullPending |-> FALSE ]

\* The state is s.
Is(s) ==
  /\ cols = s.cols /\ rows = s.rows
  /\ element = s.element /\ ghostty = s.ghostty /\ wasmTerm = s.wasmTerm
  /\ renderer = s.renderer /\ inputHandler = s.inputHandler
  /\ selectionManager = s.selectionManager /\ canvas = s.canvas
  /\ isOpen = s.isOpen /\ isDisposed = s.isDisposed
  /\ animationFrameId = s.animationFrameId /\ addons = s.addons
  /\ emittersDisposed = s.emittersDisposed
  /\ pendingOpens = s.pendingOpens /\ dom = s.dom
  /\ liveEngines = s.liveEngines
  /\ engCols = s.engCols /\ engRows = s.engRows
  /\ frames = s.frames
  /\ smCreated = s.smCreated /\ smDisposed = s.smDisposed
  /\ smWasm = s.smWasm
  /\ selectionStart = s.selectionStart /\ selectionEnd = s.selectionEnd
  /\ isSelecting = s.isSelecting
  /\ previousSelection = s.previousSelection
  /\ highlighted = s.highlighted /\ ws = s.ws
  /\ lines = s.lines /\ scrollback = s.scrollback
  /\ cursorY = s.cursorY /\ viewportY2 = s.viewportY2
  /\ clipboard = s.clipboard
  /\ click = s.click
  /\ out = s.out
  /\ opensStarted = s.opensStarted /\ wasOpened = s.wasOpened
  /\ preReady = s.preReady /\ applied = s.applied
  /\ callbacksFired = s.callbacksFired
  /\ fullPending = s.fullPending

Init ==
  /\ Is(NewTerminal)

\* ------------------------------------------------------- EventEmitter.fire
\* A disposed emitter delivers nothing; a live one delivers the event once
\* to the subscribed listener.
fire(disposed, ev) == IF disposed THEN <<>> ELSE <<ev>>

\* ------------------------------------------------------- SelectionManager
hasSelection(s) == s.selectionStart # NoCell /\ s.selectionEnd # NoCell

\* normalizeSelection comparing the rows only.
normalizeSelection_rowsOnly(s) ==
  IF s.selectionStart = NoCell \/ s.selectionEnd = NoCell THEN NoSel
  ELSE LET a == s.selectionStart
           b == s.selectionEnd
       IN IF a.row > b.row
          THEN [startCol |-> b.col, startRow |-> b.row,
                endCol |-> a.col, endRow |-> a.row]
          ELSE [startCol |-> a.col, startRow |-> a.row,
                endCol |-> b.col, endRow |-> b.row]

normalizeSelection(s) ==
  IF s.selectionStart = NoCell \/ s.selectionEnd = NoCell THEN NoSel
  ELSE LET a == s.selectionStart
           b == s.selectionEnd
       IN IF a.row > b.row \/ (a.row = b.row /\ a.col > b.col)
          THEN [startCol |-> b.col, startRow |-> b.row,
                endCol |-> a.col, endRow |-> a.row]
          ELSE [startCol |-> a.col, startRow |-> a.row,
                endCol |-> b.col, endRow |-> b.row]

\* clearSelection leaving isSelecting as it is.
clearSelection_keepDrag(s) ==
  IF ~hasSelection(s) THEN s
  ELSE [s EXCEPT !.previousSelection = normalizeSelection(s),
                 !.selectionStart = NoCell,
                 !.selectionEnd = NoCell]

clearSelection(s) ==
  IF ~hasSelection(s) THEN s
  ELSE [s EXCEPT !.previousSelection = normalizeSelection(s),
                 !.selectionStart = NoCell,
                 !.selectionEnd = NoCell,
                 !.isSelecting = FALSE]

\* getSelectionCoords answering with the coordinates saved by the last clear.
getSelectionCoords_cached(s) ==
  [s EXCEPT !.out.coords = s.previousSelection]

getSelectionCoords(s) ==
  [s EXCEPT !.out.coords = normalizeSelection(s)]

\* wasmTerm.getLine(row) of the engine instance the selection manager reads:
\* the cells of a screen row, nothing for any other index.
getLine(s, row) ==
  IF row \in 0..(Len(s.lines) - 1) THEN s.lines[row + 1] ELSE NoLine

\* cellsText reading a space where the line has no cell.
RECURSIVE cellsText_missingAsSpace(_, _, _)
cellsText_missingAsSpace(line, col, colEnd) ==
  IF col > colEnd THEN <<>>
  ELSE IF col + 1 > Len(line)
       THEN << Space >> \o cellsText_missingAsSpace(line, col + 1, colEnd)
  ELSE IF line[col + 1].width = 0
       THEN cellsText_missingAsSpace(line, col + 1, colEnd)
  ELSE IF line[col + 1].codepoint # 0
       THEN << line[col + 1].codepoint >>
               \o cellsText_missingAsSpace(line, col + 1, colEnd)
  ELSE << Space >> \o cellsText_missingAsSpace(line, col + 1, colEnd)

\* cellsText skipping the empty cells as it skips the padding cells.
RECURSIVE cellsText_emptySkipped(_, _, _)
cellsText_emptySkipped(line, col, colEnd) ==
  IF col > colEnd THEN <<>>
  ELSE IF col + 1 > Len(line) \/ line[col + 1].width = 0
          \/ line[col + 1].codepoint = 0
       THEN cellsText_emptySkipped(line, col + 1, colEnd)
  ELSE << line[col + 1].codepoint >>
          \o cellsText_emptySkipped(line, col + 1, colEnd)

\* The inner loop of getSelection: the text of the cells col..colEnd of a
\* line, as the sequence of the code points of its characters.  line[col]
\* of the code is line[col + 1] here.
RECURSIVE cellsText(_, _, _)
cellsText(line, col, colEnd) ==
  IF col > colEnd THEN <<>>
  ELSE IF col + 1 > Len(line) \/ line[col + 1].width = 0
       THEN cellsText(line, col + 1, colEnd)
  ELSE IF line[col + 1].codepoint # 0
       THEN << line[col + 1].codepoint >> \o cellsText(line, col + 1, colEnd)
  ELSE << Space >> \o cellsText(line, col + 1, colEnd)

\* rowsText taking a row without data for a row without cells.
RECURSIVE rowsText_missingAsBlank(_, _, _)
rowsText_missingAsBlank(s, coords, row) ==
  IF row > coords.endRow THEN <<>>
  ELSE LET line == getLine(s, row)
           colStart == IF row = coords.startRow THEN coords.startCol ELSE 0
           colEnd == IF row = coords.endRow THEN coords.endCol
                     ELSE Len(line) - 1
       IN (IF line = NoLine THEN <<>> ELSE cellsText(line, colStart, colEnd))
            \o (IF row < coords.endRow THEN << Newline >> ELSE <<>>)
            \o rowsText_missingAsBlank(s, coords, row + 1)

\* The outer loop of getSelection, from row on.
RECURSIVE rowsText(_, _, _)
rowsText(s, coords, row) ==
  IF row > coords.endRow THEN <<>>
  ELSE LET line == getLine(s, row)
           colStart == IF row = coords.startRow THEN coords.startCol ELSE 0
           colEnd == IF row = coords.endRow THEN coords.endCol
                     ELSE Len(line) - 1
       IN IF line = NoLine THEN rowsText(s, coords, row + 1)
          ELSE cellsText(line, colStart, colEnd)
                 \o (IF row < coords.endRow THEN << Newline >> ELSE <<>>)
                 \o rowsText(s, coords, row + 1)

getSelection(s) ==
  LET coords == normalizeSelection(s)
  IN IF coords = NoSel THEN <<>> ELSE rowsText(s, coords, coords.startRow)

\* /[\w-]/ on the character of a cell: a letter, a digit, '_' or '-' of
\* ASCII.  A missing cell and an empty cell are no word characters.
isWordChar(line, col) ==
  /\ col + 1 \in 1..Len(line)
  /\ line[col + 1].codepoint # 0
  /\ line[col + 1].codepoint \in
        (48..57) \cup (65..90) \cup (97..122) \cup {95, 45}

RECURSIVE wordStart(_, _)
wordStart(line, startCol) ==
  IF startCol > 0 /\ isWordChar(line, startCol - 1)
  THEN wordStart(line, startCol - 1) ELSE startCol

RECURSIVE wordEnd(_, _)
wordEnd(line, endCol) ==
  IF endCol < Len(line) - 1 /\ isWordChar(line, endCol + 1)
  THEN wordEnd(line, endCol + 1) ELSE endCol

NoWord == [startCol |-> -1, endCol |-> -1]

\* getWordAtCell scanning to the right only.
getWordAtCell_noLeftScan(s, col, row) ==
  LET line == getLine(s, row)
  IN IF line = NoLine THEN NoWord
     ELSE IF ~isWordChar(line, col) THEN NoWord
     ELSE [startCol |-> col, endCol |-> wordEnd(line, col)]

getWordAtCell(s, col, row) ==
  LET line == getLine(s, row)
  IN IF line = NoLine THEN NoWord
     ELSE IF ~isWordChar(line, col) THEN NoWord
     ELSE [startCol |-> wordStart(line, col), endCol |-> wordEnd(line, col)]

\* copyToClipboardFallback without its try/catch.
copyToClipboardFallback_noCatch(s, text) ==
  [s EXCEPT !.out.clip = Append(@, "exec"),
            !.out.err = IF s.clipboard.exec = "throws" THEN "Error" ELSE @]

\* The copy through a temporary textarea and document.execCommand('copy'):
\* a result of false and an exception are both logged and nothing else.
copyToClipboardFallback(s, text) ==
  [s EXCEPT !.out.clip = Append(@, "exec")]

\* The Clipboard API when the browser has one, the fallback when it has
\* none or when the promise of writeText is rejected.  The rejection is
\* handled before the next event.
copyToClipboard(s, text) ==
  IF text = <<>> THEN s
  ELSE LET s1 == [s EXCEPT !.out.copied = Append(@, text)]
           s2 == [s1 EXCEPT !.out.clip = Append(@, "api")]
       IN IF s.clipboard.api = "absent" THEN copyToClipboardFallback(s1, text)
          ELSE IF s.clipboard.api = "rejects"
               THEN copyToClipboardFallback(s2, text)
          ELSE s2

\* selectionChangedEmitter.fire(): the listener that Terminal.open has
\* registered fires the terminal's selectionChangeEmitter in its turn.
fireSelectionChanged(s) ==
  [s EXCEPT !.out.smChanged = @ + Len(fire(s.smDisposed, "changed")),
            !.out.selectionChanged =
              @ + IF fire(s.smDisposed, "changed") = <<>> THEN 0
                  ELSE Len(fire(s.emittersDisposed, "selectionChange"))]

\* copyToClipboard(text) followed by selectionChangedEmitter.fire().
copyAndFire(s, text) ==
  IF text = <<>> THEN s
  ELSE fireSelectionChanged(copyToClipboard(s, text))

\* pixelToCell clamps the cell to the terminal's current dimensions.
pixelToCell(s, c, r) ==
  LET max(a, b) == IF a > b THEN a ELSE b
      min(a, b) == IF a < b THEN a ELSE b
  IN [col |-> max(0, min(c, s.cols - 1)), row |-> max(0, min(r, s.rows - 1))]

\* ---------------------------------------------------------------- Terminal
\* assertOpen without its first test.
assertOpen_noOpenTest(s) ==
  IF s.isDisposed THEN "has been disposed" ELSE "none"

assertOpen(s) ==
  IF ~s.isOpen THEN "must be opened"
  ELSE IF s.isDisposed THEN "has been disposed"
  ELSE "none"

Fail(s, e) == [s EXCEPT !.out.err = e]

\* wasmTerm.free() on this.wasmTerm: the selection manager that reads this
\* instance now reads a freed one.
free(s) ==
  [s EXCEPT !.liveEngines = @ - 1,
            !.smWasm = IF @ = "current" THEN "freed" ELSE @]

\* The dimensions of an engine instance that is not there are kept at 0.
cleanupComponents(s) ==
  LET s1 == IF s.wasmTerm THEN free(s) ELSE s
  IN [s1 EXCEPT !.smDisposed = IF s.selectionManager THEN TRUE ELSE @,
                !.selectionManager = FALSE,
                !.inputHandler = FALSE,
                !.renderer = FALSE,
                !.dom = IF s.canvas THEN @ - 1 ELSE @,
                !.canvas = FALSE,
                !.wasmTerm = FALSE,
                !.engCols = 0,
                !.engRows = 0,
                !.ghostty = FALSE,
                !.element = FALSE]

\* renderer.render(wasmTerm, forceAll): a repaint of every visible row when
\* forceAll, of the dirty rows only otherwise.
render(s, forceAll) ==
  [s EXCEPT !.out.renders = Append(@, IF forceAll THEN "full" ELSE "dirty"),
            !.fullPending = IF forceAll THEN FALSE ELSE @]

loop(s) ==
  IF ~s.isDisposed /\ s.isOpen
  THEN IF ~s.renderer THEN Fail(s, "TypeError")
       ELSE [render(s, FALSE) EXCEPT !.animationFrameId = "scheduled",
                                     !.frames = @ + 1]
  ELSE s

startRenderLoop(s) == loop(s)

\* this.wasmTerm = createTerminal(c, r): a fresh engine instance; the
\* instance the field held before stays live unless it was freed.
createTerminal(s, c, r) ==
  [s EXCEPT !.liveEngines = @ + 1,
            !.wasmTerm = TRUE,
            !.engCols = c,
            !.engRows = r,
            !.smWasm = IF @ = "current" THEN "leaked" ELSE @]

\* new SelectionManager(this, renderer, wasmTerm): a fresh object with no
\* selection, reading the engine instance it was constructed with.
newSelectionManager(s) ==
  [s EXCEPT !.selectionManager = TRUE,
            !.smCreated = TRUE,
            !.smDisposed = FALSE,
            !.smWasm = "current",
            !.selectionStart = NoCell,
            !.selectionEnd = NoCell,
            !.isSelecting = FALSE,
            !.previousSelection = NoSel]

\* The guards of open without the isOpen test.
openGuard_noOpenTest(s) ==
  IF s.isDisposed THEN "has been disposed" ELSE "none"

\* open(parent), up to the await.  A call that fails one of the two guards
\* rejects and touches nothing.
openGuard(s) ==
  IF s.isOpen THEN "already open"
  ELSE IF s.isDisposed THEN "has been disposed"
  ELSE "none"

openBegin(s) ==
  IF openGuard(s) # "none" THEN Fail(s, openGuard(s))
  ELSE [s EXCEPT !.element = TRUE,
                 !.pendingOpens = @ + 1,
                 !.opensStarted = @ + 1]

open ==
  /\ openGuard(Cur) = "none" => opensStarted < MaxOpens
  /\ Commit(openBegin(Call("open")))

\* open(parent), from the point where Ghostty.load settles.  fail names the
\* statement of the try block that throws: the load itself, or the renderer
\* constructor (after the engine and the canvas exist).
openBody(s, fail) ==
  LET s0 == [s EXCEPT !.pendingOpens = @ - 1]
      caught(x) == Fail(cleanupComponents(x), "Failed to open terminal")
      s1 == createTerminal([s0 EXCEPT !.ghostty = TRUE], InitCols, InitRows)
      s2 == [s1 EXCEPT !.canvas = TRUE, !.dom = @ + 1]
      s3 == newSelectionManager([s2 EXCEPT !.renderer = TRUE,
                                           !.inputHandler = TRUE])
      s4 == render([s3 EXCEPT !.isOpen = TRUE, !.wasOpened = TRUE], TRUE)
  IN CASE fail = "load"     -> caught(s0)
       [] fail = "renderer" -> caught(s2)
       [] OTHER             -> startRenderLoop(s4)

openResume ==
  /\ pendingOpens > 0
  /\ \E fail \in FailPoints : Commit(openBody(Call("openResume"), fail))

\* A call made while a load is pending on a terminal that is not yet open.
DuringLoad(s) == s.pendingOpens > 0 /\ ~s.isOpen /\ ~s.isDisposed

\* write(data): the code takes no completion callback, so none is invoked.
\* write without the clearing of the selection.
writeBody_noClear(s, id) ==
  LET s0 == [s EXCEPT !.preReady = IF DuringLoad(s) THEN Append(@, id) ELSE @]
  IN IF assertOpen(s0) # "none" THEN Fail(s0, assertOpen(s0))
     ELSE IF ~s0.wasmTerm THEN Fail(s0, "TypeError")
     ELSE [s0 EXCEPT !.applied = Append(@, id)]

writeBody(s, id) ==
  LET s0 == [s EXCEPT !.preReady = IF DuringLoad(s) THEN Append(@, id) ELSE @]
      s1 == IF s0.selectionManager /\ hasSelection(s0)
            THEN clearSelection(s0) ELSE s0
  IN IF assertOpen(s0) # "none" THEN Fail(s0, assertOpen(s0))
     ELSE IF ~s1.wasmTerm THEN Fail(s1, "TypeError")
     ELSE [s1 EXCEPT !.applied = Append(@, id)]

\* The writes are numbered in the order of the calls that are logged.
write ==
  /\ Len(preReady) + Len(applied) < MaxWrites
  /\ Commit(writeBody(Call("write"), Len(preReady) + Len(applied) + 1))

\* resize without its last statement, the forced full render.
resizeBody_noFullRender(s, c, r) ==
  LET s1 == [s EXCEPT !.cols = c, !.rows = r, !.fullPending = TRUE]
      s2 == [s1 EXCEPT !.engCols = c, !.engRows = r]
  IN IF assertOpen(s) # "none" THEN Fail(s, assertOpen(s))
     ELSE IF c = s.cols /\ r = s.rows THEN s
     ELSE IF ~s1.wasmTerm THEN Fail(s1, "TypeError")
     ELSE IF ~s2.renderer THEN Fail(s2, "TypeError")
     ELSE [s2 EXCEPT !.out.events = @ \o fire(s2.emittersDisposed, <<c, r>>)]

\* wasmTerm.resize(cols, rows) on the cells of the screen: every row is
\* cut or filled up with empty cells to the new width, rows are dropped or
\* added at the bottom.
engineResize(s, c, r) ==
  IF s.lines = <<>> THEN s
  ELSE [s EXCEPT !.lines =
          [i \in 1..r |->
             IF i > Len(s.lines) THEN [j \in 1..c |-> [codepoint |-> 0, width |-> 1]]
             ELSE IF s.lines[i] = NoLine THEN NoLine
             ELSE [j \in 1..c |-> IF j <= Len(s.lines[i]) THEN s.lines[i][j]
                                   ELSE [codepoint |-> 0, width |-> 1]]],
                 !.cursorY = IF @ > r - 1 THEN r - 1 ELSE @]

resizeBody(s, c, r) ==
  LET s1 == [s EXCEPT !.cols = c, !.rows = r, !.fullPending = TRUE]
      s2 == engineResize([s1 EXCEPT !.engCols = c, !.engRows = r], c, r)
      s3 == [s2 EXCEPT !.out.events = @ \o fire(s2.emittersDisposed, <<c, r>>)]
  IN IF assertOpen(s) # "none" THEN Fail(s, assertOpen(s))
     ELSE IF c = s.cols /\ r = s.rows THEN s
     ELSE IF ~s1.wasmTerm THEN Fail(s1, "TypeError")
     ELSE IF ~s2.renderer THEN Fail(s2, "TypeError")
     ELSE render(s3, TRUE)

resize ==
  \E c \in DimSet, r \in DimSet : /\ Commit(resizeBody(Call("resize"), c, r))

resetBody(s) ==
  LET s1 == IF s.wasmTerm THEN free(s) ELSE s
      s2 == createTerminal(s1, s1.cols, s1.rows)
  IN IF assertOpen(s) # "none" THEN Fail(s, assertOpen(s))
     ELSE IF ~s1.ghostty THEN Fail(s1, "TypeError")
     ELSE IF ~s2.renderer THEN Fail(s2, "TypeError")
     ELSE s2

reset ==
  /\ Commit(resetBody(Call("reset")))

loadAddon ==
  /\ Commit([Call("loadAddon") EXCEPT !.addons = TRUE])

\* if (this.animationFrameId) { cancelAnimationFrame(...); ... = undefined }
\* Cancelling a stale handle cancels nothing.
cancelAnimationFrame(s) ==
  [s EXCEPT !.frames = IF s.animationFrameId = "scheduled" THEN @ - 1 ELSE @,
            !.animationFrameId = "undefined"]

\* dispose without the early return of an already disposed terminal.
disposeBody_noEarlyReturn(s) ==
  LET s1 == [s EXCEPT !.isDisposed = TRUE, !.isOpen = FALSE]
      s2 == cancelAnimationFrame(s1)
      s3 == [s2 EXCEPT !.out.addonsDisposed = s2.addons, !.addons = FALSE]
  IN [cleanupComponents(s3) EXCEPT !.emittersDisposed = TRUE]

\* dispose without the disposal of the four emitters.
disposeBody_keepEmitters(s) ==
  IF s.isDisposed THEN s
  ELSE LET s1 == [s EXCEPT !.isDisposed = TRUE, !.isOpen = FALSE]
           s2 == cancelAnimationFrame(s1)
           s3 == [s2 EXCEPT !.out.addonsDisposed = s2.addons, !.addons = FALSE]
       IN cleanupComponents(s3)

disposeBody(s) ==
  IF s.isDisposed THEN s
  ELSE LET s1 == [s EXCEPT !.isDisposed = TRUE, !.isOpen = FALSE]
           s2 == cancelAnimationFrame(s1)
           s3 == [s2 EXCEPT !.out.addonsDisposed = s2.addons, !.addons = FALSE]
       IN [cleanupComponents(s3) EXCEPT !.emittersDisposed = TRUE]

dispose ==
  /\ Commit(disposeBody(Call("dispose")))

\* An animation-frame callback scheduled by the render loop runs: the one
\* whose handle this.animationFrameId holds (held), or another one.
frameBody(s, held) ==
  loop([s EXCEPT !.frames = @ - 1,
                 !.animationFrameId = IF held THEN "stale" ELSE @])

frame ==
  \E held \in BOOLEAN :
     /\ IF held THEN animationFrameId = "scheduled"
                ELSE frames > (IF animationFrameId = "scheduled" THEN 1 ELSE 0)
     /\ Commit(frameBody(Call("frame"), held))

\* mousedown (left button) on the canvas of the selection manager.
mousedownBody(s, c, r) ==
  LET cell == pixelToCell(s, c, r)
      s1 == IF hasSelection(s) THEN clearSelection(s) ELSE s
  IN [s1 EXCEPT !.selectionStart = cell,
                !.selectionEnd = cell,
                !.isSelecting = TRUE]

mousedownAt(c, r) ==
  /\ smCreated
  /\ Commit(mousedownBody(Call("mousedown"), c, r))

\* A press at the origin of the canvas.
mousedown ==
  /\ mousedownAt(0, 0)

Next ==
  \/ open
  \/ openResume
  \/ write
  \/ resize
  \/ reset
  \/ loadAddon
  \/ dispose
  \/ frame
  \/ mousedown

Spec == Init /\ [][Next]_vars

\* ------------------------------------------------- selection of screen text
\* The cells the engine hands out.  A row of n cells holds the letters
\* 'a' + base, 'a' + base + 1, ... except for what its kind <<k, j>> puts at
\* column j: an empty cell, a space, a hyphen, or a wide character followed
\* by its width-0 padding cell.  The kind "null" is a row without data.
Cell(cp, w) == [codepoint |-> cp, width |-> w]

RowKinds(n) ==
  {<<"null", 0>>, <<"plain", 0>>}
    \cup ({"empty", "space", "hyphen"} \X (0..(n - 1)))
    \cup ({"wide"} \X (0..(n - 2)))

RowOf(base, n, kind) ==
  LET k == kind[1]
      j == kind[2]
  IN IF k = "null" THEN NoLine
     ELSE [i \in 1..n |->
             IF i - 1 = j /\ k = "empty" THEN Cell(0, 1)
             ELSE IF i - 1 = j /\ k = "space" THEN Cell(Space, 1)
             ELSE IF i - 1 = j /\ k = "hyphen" THEN Cell(45, 1)
             ELSE IF i - 1 = j /\ k = "wide" THEN Cell(20013, 2)
             ELSE IF i - 1 = j + 1 /\ k = "wide" THEN Cell(0, 0)
             ELSE Cell(97 + ((base + i - 1) % 26), 1)]

\* The terminal after `new Terminal(options)` and an open() that succeeded.
Opened ==
  [openBody(openBegin(NewTerminal), "none") EXCEPT !.out = NoOut]

\* Screens whose rows all hold the same cells, of one of the kinds.
Screens(kinds) ==
  { [r \in 1..InitRows |-> RowOf(0, InitCols, k)] : k \in kinds }

\* Selection by the pointer and by the API: rows of letters, with a space
\* in front or without.
SelInit ==
  \E b \in Screens({<<"plain", 0>>, <<"space", 0>>}) :
     Is([Opened EXCEPT !.lines = b, !.cursorY = InitRows - 1])

\* The pointer is pressed at (c, r), moves to (c, r), is released.
press(s, c, r) == [s EXCEPT !.click = [col |-> c, row |-> r, phase |-> "down"]]

move(s, c, r) ==
  [s EXCEPT !.click = IF @.phase = "down"
                      THEN [col |-> c, row |-> r, phase |-> "down"]
                      ELSE NoClick]

release(s) ==
  [s EXCEPT !.click = IF @.phase = "down" THEN [@ EXCEPT !.phase = "up"]
                      ELSE NoClick]

selMousedown ==
  \E c \in 0..(cols - 1), r \in 0..(rows - 1) :
     /\ Commit(press(mousedownBody(Call("mousedown"), c, r), c, r))

\* mousemove without the test of isSelecting.
mousemoveBody_noGuard(s, c, r) ==
  [s EXCEPT !.selectionEnd = pixelToCell(s, c, r)]

mousemoveBody(s, c, r) ==
  IF s.isSelecting THEN [s EXCEPT !.selectionEnd = pixelToCell(s, c, r)]
  ELSE s

mousemove ==
  \E c \in 0..(cols - 1), r \in 0..(rows - 1) :
     /\ Commit(move(mousemoveBody(Call("mousemove"), c, r), c, r))

mouseupBody(s) ==
  IF s.isSelecting
  THEN LET s1 == [s EXCEPT !.isSelecting = FALSE]
       IN copyAndFire(s1, getSelection(s1))
  ELSE s

mouseup ==
  /\ Commit(release(mouseupBody(Call("mouseup"))))

dblclickBody(s, c, r) ==
  LET cell == pixelToCell(s, c, r)
      word == getWordAtCell(s, cell.col, cell.row)
      s1 == [s EXCEPT !.selectionStart = [col |-> word.startCol, row |-> cell.row],
                      !.selectionEnd = [col |-> word.endCol, row |-> cell.row]]
  IN IF word = NoWord THEN s ELSE copyAndFire(s1, getSelection(s1))

\* The browser sends dblclick after the release of a click, at the place of
\* the pointer.  The position stays in click for the claims to read.
dblclick ==
  /\ click.phase = "up"
  /\ Commit([dblclickBody(Call("dblclick"), click.col, click.row)
               EXCEPT !.click.phase = "none"])

\* Terminal.selectAll -> SelectionManager.selectAll; getDimensions() of the
\* engine instance the manager reads.
selectAllBody(s) ==
  IF ~s.selectionManager THEN s
  ELSE [s EXCEPT !.selectionStart = [col |-> 0, row |-> 0],
                 !.selectionEnd = [col |-> s.engCols - 1, row |-> s.engRows - 1],
                 !.out = fireSelectionChanged(s).out]

\* The contextmenu listener copies the selection and changes nothing.
contextmenuBody(s) ==
  IF hasSelection(s) THEN copyToClipboard(s, getSelection(s)) ELSE s

contextmenu ==
  /\ Commit(contextmenuBody(Call("contextmenu")))

\* A click on the page outside the canvas: the listeners of the selection
\* manager are all on the canvas, and no code of the terminal listens on
\* the document.
clickOutside ==
  /\ Commit(Call("clickOutside"))

selectAll ==
  /\ Commit(selectAllBody(Call("selectAll")))

termClearSelection ==
  /\ Commit(IF selectionManager THEN clearSelection(Call("clearSelection"))
            ELSE Call("clearSelection"))

\* Terminal.hasSelection: selectionManager?.hasSelection() || false
termHasSelection(s) == s.selectionManager /\ hasSelection(s)

\* Terminal.getSelection: selectionManager?.getSelection() || ''
termGetSelection(s) ==
  [s EXCEPT !.out.text = IF s.selectionManager THEN getSelection(s) ELSE <<>>]

getSelectionText ==
  /\ Commit(termGetSelection(Call("getSelection")))

getCoords ==
  /\ smCreated
  /\ Commit(getSelectionCoords(Call("getSelectionCoords")))

\* The engine puts the cells of a line in the row of its cursor.
enginePut(s, row) ==
  IF s.lines = <<>> THEN s ELSE [s EXCEPT !.lines[s.cursorY + 1] = row]

\* A line feed that moves every row up, wherever the cursor is.
engineLineFeed_alwaysScroll(s) ==
  IF s.lines = <<>> THEN s
  ELSE [s EXCEPT !.scrollback = Append(@, Head(s.lines)),
                 !.lines = Tail(@) \o << [i \in 1..Len(Head(@)) |-> Cell(0, 1)] >>]

\* A line feed moves the cursor down one row; on the last row of the screen
\* the top row moves into the scrollback and an empty row comes in at the
\* bottom.
engineLineFeed(s) ==
  IF s.lines = <<>> THEN s
  ELSE IF s.cursorY < Len(s.lines) - 1 THEN [s EXCEPT !.cursorY = @ + 1]
  ELSE [s EXCEPT !.scrollback = Append(@, Head(s.lines)),
                 !.lines = Tail(@) \o << [i \in 1..Len(Head(@)) |-> Cell(0, 1)] >>]

\* The engine takes a line feed and a line while its cursor is on the last
\* screen row: the top row moves into the scrollback.  The line written
\* repeats the row that scrolls off.
engineWriteLine(s) ==
  IF s.lines = <<>> THEN s ELSE enginePut(engineLineFeed(s), Head(s.lines))

writelnBody(s, id) ==
  LET s1 == writeBody(s, id)
  IN IF s1.out.err # "none" THEN s1 ELSE engineWriteLine(s1)

writeln ==
  /\ Len(preReady) + Len(applied) < MaxWrites
  /\ Commit(writelnBody(Call("write"), Len(preReady) + Len(applied) + 1))

SelNext ==
  \/ selMousedown
  \/ mousemove
  \/ mouseup
  \/ dblclick
  \/ selectAll
  \/ termClearSelection
  \/ getCoords
  \/ writeln

SelSpec == SelInit /\ [][SelNext]_vars

\* Clicks, drags and double-clicks on screens of every kind of row, and
\* clicks beside the canvas.
WordInit ==
  \E b \in Screens(RowKinds(InitCols)) :
     Is([Opened EXCEPT !.lines = b, !.cursorY = InitRows - 1])

WordNext ==
  \/ selMousedown
  \/ mousemove
  \/ mouseup
  \/ dblclick
  \/ clickOutside

WordSpec == WordInit /\ [][WordNext]_vars

\* The copies of the three handlers that copy, in every kind of browser:
\* rows of letters, and rows that begin with a wide character, whose
\* second cell selects no text.
Browsers == [api : {"absent", "resolves", "rejects"},
             exec : {"true", "false", "throws"}]

CopyInit ==
  \E b \in Screens({<<"plain", 0>>, <<"wide", 0>>}), br \in Browsers :
     Is([Opened EXCEPT !.lines = b, !.cursorY = InitRows - 1,
                       !.clipboard = br])

CopyNext ==
  \/ selMousedown
  \/ mouseup
  \/ dblclick
  \/ contextmenu

CopySpec == CopyInit /\ [][CopyNext]_vars

\* ------------------------------------------------------------- viewport
\* The viewport offset is kept in half rows: viewportY2 = 2 * viewportY.
\* scrollLines(amount) without the clamping.
scrollLinesBody_noClamp(s, amount2) ==
  [s EXCEPT !.viewportY2 = @ - amount2]

\* scrollLines(amount): a negative amount scrolls up, into the scrollback;
\* the offset stays within 0..getScrollbackLength() of the engine, read at
\* the call.
scrollLinesBody(s, amount2) ==
  LET max(a, b) == IF a > b THEN a ELSE b
      min(a, b) == IF a < b THEN a ELSE b
  IN [s EXCEPT !.viewportY2 =
                 max(0, min(2 * Len(s.scrollback), @ - amount2))]

scrollToTopBody(s) == [s EXCEPT !.viewportY2 = 2 * Len(s.scrollback)]

\* scrollToBottom leaving the offset where it is.
scrollToBottomBody_stay(s) == s

scrollToBottomBody(s) == [s EXCEPT !.viewportY2 = 0]

\* getViewportY(): the offset, a whole number of rows or a half more.
getViewportY2(s) == s.viewportY2

\* The absolute row that the renderer paints in viewport row r, and its
\* cells: the scrollback comes first, the screen after it.
toAbsolute(s, r) == Len(s.scrollback) - (getViewportY2(s) \div 2) + r

bufferRow(s, a) ==
  IF a < Len(s.scrollback) THEN s.scrollback[a + 1]
  ELSE s.lines[a - Len(s.scrollback) + 1]

\* The k-th line written: letters of its own, then "\r\n".
LineRow(k, n) == RowOf(k * n, n, <<"plain", 0>>)

\* write(line + "\r\n"), the k-th write
viewWritelnBody(s, k, row) ==
  LET s1 == writeBody(s, k)
  IN IF s1.out.err # "none" THEN s1
     ELSE engineLineFeed(enginePut(s1, row))

viewWriteln ==
  /\ Len(applied) < MaxLines
  /\ Commit(viewWritelnBody(Call("write"), Len(applied),
                            LineRow(Len(applied), cols)))

Amounts2 == (-(2 * MaxLines + 1))..(2 * MaxLines + 1)

scrollLines ==
  \E amount2 \in Amounts2 :
     /\ Commit(scrollLinesBody(Call("scrollLines"), amount2))

scrollToTop ==
  /\ Commit(scrollToTopBody(Call("scrollToTop")))

scrollToBottom ==
  /\ Commit(scrollToBottomBody(Call("scrollToBottom")))

\* A terminal just opened, its screen empty and its cursor at the top;
\* lines are written, the viewport is scrolled, cells are clicked and the
\* selected text is read.
ViewInit ==
  Is([Opened EXCEPT !.lines = [r \in 1..InitRows |->
                                 [i \in 1..InitCols |-> Cell(0, 1)]]])

ViewNext ==
  \/ viewWriteln
  \/ scrollLines
  \/ scrollToTop
  \/ scrollToBottom
  \/ selMousedown
  \/ mouseup
  \/ getSelectionText

ViewSpec == ViewInit /\ [][ViewNext]_vars

\* --------------------------------------------------------------- render
\* clearPreviousSelection()
clearPreviousSelection(s) == [s EXCEPT !.previousSelection = NoSel]

\* A frame of the render loop: the renderer paints the dirty rows and the
\* rows of getSelectionCoords() and getPreviousSelectionCoords(), then
\* calls clearPreviousSelection().
renderFrameBody(s) ==
  [clearPreviousSelection(render(s, FALSE))
     EXCEPT !.highlighted = normalizeSelection(s)]

renderFrame ==
  /\ Commit(renderFrameBody(Call("frame")))

\* The selection changed between the frames of the render loop.
RenderInit ==
  \E b \in Screens({<<"plain", 0>>}) :
     Is([Opened EXCEPT !.lines = b, !.cursorY = InitRows - 1])

RenderNext ==
  \/ selMousedown
  \/ mousemove
  \/ termClearSelection
  \/ write
  \/ renderFrame

RenderSpec == RenderInit /\ [][RenderNext]_vars

\* -------------------------------------------------------------- disposal
\* The callbacks that open() hands to the input handler: a key gives data,
\* a bell rings.  The handler may call them at any time.
keyInputBody(s) ==
  [s EXCEPT !.out.events = @ \o fire(s.emittersDisposed, "data")]

keyInput ==
  /\ Commit(keyInputBody(Call("keyInput")))

bellBody(s) ==
  [s EXCEPT !.out.events = @ \o fire(s.emittersDisposed, "bell")]

bell ==
  /\ Commit(bellBody(Call("bell")))

\* An open terminal that is used and disposed, and the events that reach
\* its canvas and its input handler before and after.
DisposeInit ==
  \E b \in Screens({<<"plain", 0>>}) :
     Is([Opened EXCEPT !.lines = b, !.cursorY = InitRows - 1])

DisposeNext ==
  \/ mousedown
  \/ mouseup
  \/ selectAll
  \/ keyInput
  \/ bell
  \/ resize
  \/ dispose

DisposeSpec == DisposeInit /\ [][DisposeNext]_vars

\* --------------------------------------------------------------- resize
\* A selection dragged by the pointer on rows of letters, and the terminal
\* resized under it.
ResizeInit ==
  \E b \in Screens({<<"plain", 0>>}) :
     Is([Opened EXCEPT !.lines = b, !.cursorY = InitRows - 1])

ResizeNext ==
  \/ selMousedown
  \/ mousemove
  \/ resize
  \/ getSelectionText

ResizeSpec == ResizeInit /\ [][ResizeNext]_vars

\* ------------------------------------------------------------- scenario
\* The test "should select correct text from scrollback buffer": a terminal
\* of 24 rows, 100 lines "Line 000".."Line 099", scrollLines(-50), a
\* selection dragged from the first cell of viewport row 5 to the last
\* cell of viewport row 7.  The terminal is one column wider than a line.
ScenRows   == 24
ScenLines  == 100
ScenAmount == -50

\* "Line " and the number in three digits
Label(k) ==
  << 76, 105, 110, 101, Space,
     48 + (k \div 100), 48 + ((k \div 10) % 10), 48 + (k % 10) >>

ScenCols   == Len(Label(0)) + 1
ScenFirst  == [col |-> 0, row |-> 5]
ScenLast   == [col |-> ScenCols - 1, row |-> 7]

ScenRow(k) ==
  [i \in 1..ScenCols |->
     IF i <= Len(Label(k)) THEN Cell(Label(k)[i], 1) ELSE Cell(0, 1)]

ScenInit ==
  Is([Opened EXCEPT !.cols = ScenCols, !.rows = ScenRows,
                    !.engCols = ScenCols, !.engRows = ScenRows,
                    !.lines = [r \in 1..ScenRows |->
                                 [i \in 1..ScenCols |-> Cell(0, 1)]]])

scenWriteln ==
  /\ Len(applied) < ScenLines
  /\ Commit(viewWritelnBody(Call("write"), Len(applied), ScenRow(Len(applied))))

scenScroll ==
  /\ out.op = "write" /\ Len(applied) = ScenLines
  /\ Commit(scrollLinesBody(Call("scrollLines"), 2 * ScenAmount))

scenPress ==
  /\ out.op = "scrollLines"
  /\ Commit(press(mousedownBody(Call("mousedown"), ScenFirst.col, ScenFirst.row),
                  ScenFirst.col, ScenFirst.row))

scenMove ==
  /\ out.op = "mousedown"
  /\ Commit(move(mousemoveBody(Call("mousemove"), ScenLast.col, ScenLast.row),
                 ScenLast.col, ScenLast.row))

scenRelease ==
  /\ out.op = "mousemove"
  /\ Commit(release(mouseupBody(Call("mouseup"))))

scenRead ==
  /\ out.op = "mouseup"
  /\ Commit(termGetSelection(Call("getSelection")))

ScenNext ==
  \/ scenWriteln
  \/ scenScroll
  \/ scenPress
  \/ scenMove
  \/ scenRelease
  \/ scenRead

ScenSpec == ScenInit /\ [][ScenNext]_vars

\* getSelection as a function of the screen and of the two endpoints: a
\* terminal of TextCols x TextRows whose rows are of any kind, each row with
\* letters of its own, and any anchor and focus on it.
TextCols == MaxDim
TextRows == MaxDim + 1

TextKinds ==
  {k \in RowKinds(TextCols) : k[1] \in {"null", "plain", "empty", "wide"}}

TextBuffers ==
  { [r \in 1..TextRows |-> RowOf((r - 1) * TextCols, TextCols, kinds[r])] :
       kinds \in [1..TextRows -> TextKinds] }

TextCells == [col : 0..(TextCols - 1), row : 0..(TextRows - 1)]

TextOpened ==
  [resizeBody(Opened, TextCols, TextRows) EXCEPT !.out = NoOut]

TextInit ==
  \E b \in TextBuffers :
     \/ Is([TextOpened EXCEPT !.lines = b])
     \/ \E a \in TextCells, f \in TextCells :
           Is([TextOpened EXCEPT !.lines = b, !.selectionStart = a,
                                 !.selectionEnd = f])

TextNext ==
  \/ getSelectionText

TextSpec == TextInit /\ [][TextNext]_vars

\* ================================================================== claims
\* wasmTerm.getScrollbackLength()
scrollbackLength == Len(scrollback)

termVars == << cols, rows, element, ghostty, wasmTerm, renderer, inputHandler,
               selectionManager, canvas, isOpen, isDisposed, animationFrameId,
               addons, emittersDisposed >>
hostVars == << pendingOpens, dom, liveEngines, engCols, engRows, frames >>
smVars   == << smCreated, smDisposed, smWasm, selectionStart, selectionEnd,
               isSelecting, previousSelection >>
logVars  == << opensStarted, wasOpened, preReady, applied, callbacksFired >>

IsPrefix(p, q) ==
  Len(p) <= Len(q) /\ \A i \in 1..Len(p) : p[i] = q[i]

\* C1: a write submitted while the engine load is pending is accepted, and
\* once the terminal is open the writes submitted during the load have been
\* applied to the engine, in submission order, ahead of every later write.
C1_QueuedWritesApplied ==
  /\ (out.op = "write" /\ pendingOpens > 0 /\ ~isOpen /\ ~isDisposed)
        => out.err = "none"
  /\ (isOpen /\ ~isDisposed) => IsPrefix(preReady, applied)

\* C2: once the terminal is open, the completion callback of every write
\* submitted during the load has been invoked exactly once, in submission
\* order, and only for writes that have been applied.
C2_CallbacksInOrder ==
  (isOpen /\ ~isDisposed) =>
     /\ callbacksFired = preReady
     /\ \A i \in 1..Len(callbacksFired) :
           \E j \in 1..Len(applied) : applied[j] = callbacksFired[i]

\* C3: as long as no open() has been started, write() and resize() fail with
\* 'must be opened', fire no event, render nothing and change no state of the
\* terminal, its host or its selection.
C3_NotOpenedFails ==
  [][ (opensStarted = 0 /\ out'.op \in {"write", "resize"}) =>
         /\ out'.err = "must be opened"
         /\ out'.events = <<>> /\ out'.renders = <<>>
         /\ UNCHANGED << termVars, hostVars, smVars, logVars >> ]_vars

C3_Witness ==
  /\ opensStarted = 0 /\ out.op = "resize" /\ out.err = "must be opened"
  /\ cols = InitCols /\ rows = InitRows

\* C4: a write() on a terminal that was opened and then disposed fails with
\* 'Terminal has been disposed'.
C4_WriteAfterDispose ==
  (out.op = "write" /\ wasOpened /\ isDisposed /\ pendingOpens = 0)
     => out.err = "has been disposed"

C6_DisposedNeverOpen ==
  /\ isDisposed => ~isOpen
  /\ (out.op = "open" /\ isDisposed) => out.err = "has been disposed"

\* C7: dispose() never fails, and a dispose() on a terminal that is already
\* disposed changes no state and disposes no addon.
C7_DisposeIdempotent ==
  [][ out'.op = "dispose" =>
         /\ out'.err = "none"
         /\ isDisposed'
         /\ isDisposed =>
               /\ ~out'.addonsDisposed /\ out'.renders = <<>>
               /\ UNCHANGED << termVars, hostVars, smVars, logVars >> ]_vars

C7_Witness ==
  out.op = "dispose" /\ out.err = "none" /\ isDisposed /\ addons

\* C8: a dispose() of a terminal whose open() has completed leaves no canvas
\* of the terminal in the container and no renderer, selection manager,
\* input handler or engine instance in the terminal.
C8_DisposeReleasesAll ==
  [][ (wasOpened /\ isOpen /\ ~isDisposed /\ out'.op = "dispose") =>
         /\ dom' = 0
         /\ ~renderer' /\ ~selectionManager' /\ ~inputHandler'
         /\ ~wasmTerm' ]_vars

\* C9: once the terminal is disposed no step invokes the render call and no
\* animation-frame callback is scheduled.
C9_NoRenderAfterDispose ==
  [][ /\ isDisposed => out'.renders = <<>>
      /\ isDisposed' => frames' = 0 ]_vars

\* C10: on an open terminal resize(c, r) fires onResize exactly once, with
\* (c, r), when (c, r) differs from the current dimensions, and otherwise
\* fires nothing and changes nothing.
C10_ResizeFiresIffChanged ==
  [][ (isOpen /\ ~isDisposed /\ out'.op = "resize") =>
         IF cols' = cols /\ rows' = rows
         THEN /\ out'.events = <<>> /\ out'.renders = <<>>
              /\ UNCHANGED << termVars, hostVars, smVars, logVars >>
         ELSE out'.events = << <<cols', rows'>> >> ]_vars

\* C11: a resize that changes the dimensions and completes makes one full
\* render in the same call, and from a change of the dimensions until the
\* next full render no dirty-rows-only render is made.
C11_FullRenderAfterResize ==
  [][ /\ (out'.op = "resize" /\ out'.err = "none"
            /\ (cols' # cols \/ rows' # rows)) => out'.renders = << "full" >>
      /\ fullPending =>
            (out'.renders = <<>> \/ Head(out'.renders) = "full") ]_vars

C11_Witness ==
  /\ out.op = "resize" /\ out.err = "none" /\ out.renders = << "full" >>
  /\ out.events = << <<cols, rows>> >> /\ ~fullPending /\ frames > 0

\* ------------------------------------------------------- selection claims
Ordered(n) ==
  n.startRow < n.endRow \/ (n.startRow = n.endRow /\ n.startCol <= n.endCol)

Endpoints(n) ==
  { [col |-> n.startCol, row |-> n.startRow],
    [col |-> n.endCol, row |-> n.endRow] }

\* C12: whenever a selection exists its normalized form is ordered, start
\* before or at end, rows compared first, and its two ends are the current
\* anchor and focus; the coordinates getSelectionCoords answers with are
\* that form, and nothing when there is no selection.
C12_NormalizedOrdered ==
  /\ hasSelection(Cur) =>
        /\ Ordered(normalizeSelection(Cur))
        /\ Endpoints(normalizeSelection(Cur)) = {selectionStart, selectionEnd}
  /\ out.op = "getSelectionCoords" =>
        IF selectionStart = NoCell \/ selectionEnd = NoCell
        THEN out.coords = NoSel
        ELSE /\ Ordered(out.coords)
             /\ Endpoints(out.coords) = {selectionStart, selectionEnd}

C12_Witness ==
  /\ out.op = "getSelectionCoords"
  /\ selectionStart = [col |-> 0, row |-> 1]
  /\ selectionEnd = [col |-> 1, row |-> 0]
  /\ out.coords = [startCol |-> 1, startRow |-> 0, endCol |-> 0, endRow |-> 1]
  /\ previousSelection \notin {NoSel, out.coords}

\* The characters of the cells that have a width: a space for an empty cell.
VisibleText(cells) ==
  LET vis == SelectSeq(cells, LAMBDA c : c.width # 0)
  IN [i \in 1..Len(vis) |->
        IF vis[i].codepoint = 0 THEN Space ELSE vis[i].codepoint]

\* The cells of screen row r that lie in the ordered selection n.
RowPart(n, r) ==
  SubSeq(lines[r + 1],
         IF r = n.startRow THEN n.startCol + 1 ELSE 1,
         IF r = n.endRow THEN n.endCol + 1 ELSE Len(lines[r + 1]))

RECURSIVE Joined(_, _)
Joined(n, r) ==
  IF r > n.endRow THEN <<>>
  ELSE VisibleText(RowPart(n, r))
         \o (IF r < n.endRow THEN << Newline >> ELSE <<>>)
         \o Joined(n, r + 1)

Newlines(text) == Cardinality({i \in 1..Len(text) : text[i] = Newline})

Before(a, b) == a.row < b.row \/ (a.row = b.row /\ a.col <= b.col)

\* C13: the text of the selection with anchor A and focus B is the text of
\* the selection with anchor B and focus A, and it starts at the endpoint
\* with the smaller row, or on one row at the one with the smaller column.
C13_ReversalSameText ==
  (out.op = "getSelection" /\ hasSelection(Cur)) =>
     LET swapped == [Cur EXCEPT !.selectionStart = selectionEnd,
                                !.selectionEnd = selectionStart]
         first == IF Before(selectionStart, selectionEnd)
                  THEN selectionStart ELSE selectionEnd
     IN /\ out.text = getSelection(swapped)
        /\ normalizeSelection(Cur).startRow = first.row
        /\ normalizeSelection(Cur).startCol = first.col

C13_Witness ==
  /\ out.op = "getSelection"
  /\ selectionStart = [col |-> 1, row |-> 0]
  /\ selectionEnd = [col |-> 0, row |-> 0]
  /\ Len(out.text) = 2

\* C14: on a screen whose selected rows all have data, the text of a
\* selection is the visible characters of the first row from startCol, of
\* the middle rows in full and of the last row up to endCol, padding cells
\* left out and empty cells as one space, with one newline between two rows
\* and none at the end.
C14_ExactText ==
  LET n == normalizeSelection(Cur)
  IN (/\ out.op = "getSelection" /\ hasSelection(Cur)
      /\ \A r \in n.startRow..n.endRow : lines[r + 1] # NoLine) =>
        /\ out.text = Joined(n, n.startRow)
        /\ Newlines(out.text) = n.endRow - n.startRow
        /\ out.text # <<>> => out.text[Len(out.text)] # Newline

C14_Witness ==
  /\ out.op = "getSelection"
  /\ selectionStart = [col |-> 1, row |-> 0]
  /\ selectionEnd = [col |-> 0, row |-> 2]
  /\ \A r \in 1..3 : lines[r] # NoLine
  /\ lines[1][2] = Cell(0, 1)
  /\ lines[2][2] = Cell(0, 0)
  /\ out.text = << Space, Newline, 20013, Newline, lines[3][1].codepoint >>

IsWordCell(r, c) ==
  /\ r \in 0..(Len(lines) - 1)
  /\ lines[r + 1] # NoLine
  /\ c \in 0..(Len(lines[r + 1]) - 1)
  /\ lines[r + 1][c + 1].codepoint \in
        (48..57) \cup (65..90) \cup (97..122) \cup {95, 45}

\* C16: a double-click on a cell of a word selects, on the row of the click,
\* the run of word cells around the click that no word cell borders: the
\* cell before its start and the cell after its end are not word cells or
\* lie outside the row.
C16_WordIsMaximalRun ==
  (out.op = "dblclick" /\ IsWordCell(click.row, click.col)) =>
     /\ selectionStart.row = click.row /\ selectionEnd.row = click.row
     /\ selectionStart.col <= click.col /\ click.col <= selectionEnd.col
     /\ \A c \in selectionStart.col..selectionEnd.col :
           IsWordCell(click.row, c)
     /\ ~IsWordCell(click.row, selectionStart.col - 1)
     /\ ~IsWordCell(click.row, selectionEnd.col + 1)

C16_Witness ==
  /\ out.op = "dblclick"
  /\ click.col = 1 /\ click.row = 0
  /\ selectionStart = [col |-> 0, row |-> 0]
  /\ selectionEnd = [col |-> 1, row |-> 0]
  /\ out.copied = << << 97, 45 >> >>

\* C17: after a double-click on a cell that is no word cell (a space, an
\* empty cell, a cell of a row without data) there is no selection and the
\* double-click has copied nothing.
C17_NonWordNoSelection ==
  (out.op = "dblclick" /\ ~IsWordCell(click.row, click.col)) =>
     /\ ~hasSelection(Cur)
     /\ out.copied = <<>>

\* C18: after selectAll() the anchor is {0, 0} and the focus is the last
\* column of the last row of scrollback plus screen.
C18_SelectAllCoversScrollback ==
  out.op = "selectAll" =>
     /\ selectionStart = [col |-> 0, row |-> 0]
     /\ selectionEnd = [col |-> cols - 1, row |-> scrollbackLength + rows - 1]

\* C19: after a press at (col, row) of the viewport there is one selection,
\* with anchor = focus = {col, scrollbackLength + row}: the row counted from
\* the top of the scrollback.  The terminal has no way to scroll its
\* viewport, so the viewport offset is 0.
C19_PressSelectsAbsoluteCell ==
  out.op = "mousedown" =>
     /\ hasSelection(Cur)
     /\ selectionStart = [col |-> click.col,
                           row |-> scrollbackLength + click.row]
     /\ selectionEnd = selectionStart

C21_PointerUpNotifies ==
  [][(out'.op = "mouseup" /\ isSelecting) => out'.selectionChanged = 1]_vars

\* C22: a copy never fails the handler that makes it: no error comes out,
\* the fallback is tried whenever the Clipboard API is missing or rejects,
\* and the selection is what the handler made of it (untouched by the
\* context menu, the same two cells after a release), whatever the
\* browser does.
C22_ClipboardFailureContained ==
  [][(out'.op \in {"mouseup", "dblclick", "contextmenu"} /\ out'.copied # <<>>)
       => /\ out'.err = "none"
          /\ clipboard.api = "resolves" => out'.clip = << "api" >>
          /\ clipboard.api = "rejects" => out'.clip = << "api", "exec" >>
          /\ clipboard.api = "absent" => out'.clip = << "exec" >>
          /\ out'.op = "contextmenu" => UNCHANGED smVars
          /\ out'.op = "mouseup" =>
                UNCHANGED << selectionStart, selectionEnd, previousSelection >>
          /\ selectionStart' # NoCell /\ selectionEnd' # NoCell]_vars

C22_Witness ==
  /\ out.op = "contextmenu" /\ out.err = "none"
  /\ clipboard = [api |-> "rejects", exec |-> "throws"]
  /\ out.clip = << "api", "exec" >>
  /\ hasSelection(Cur)

\* C23: after a write to a terminal that is open and not disposed there is
\* no selection, in the middle of a drag as at any other time.
C23_WriteClearsSelection ==
  [][(out'.op = "write" /\ isOpen /\ ~isDisposed)
       => ~termHasSelection(Cur)']_vars

C23_Witness ==
  /\ out.op = "write" /\ out.err = "none" /\ isOpen /\ ~isDisposed
  /\ previousSelection # NoSel /\ ~termHasSelection(Cur) /\ ~isSelecting
  /\ applied # <<>>

\* C24: after a click outside the canvas there is no selection.
C24_ClickOutsideClears ==
  out.op = "clickOutside" => ~hasSelection(Cur)

\* C25: the viewport offset is never below 0 and never above the length of
\* the scrollback.
C25_OffsetWithinScrollback ==
  0 <= viewportY2 /\ viewportY2 <= 2 * scrollbackLength

C25_Witness ==
  /\ out.op = "scrollLines" /\ scrollbackLength >= 2
  /\ viewportY2 = 2 * scrollbackLength - 1

\* C26: scrollToTop sets the offset to the length of the scrollback, and
\* scrollToBottom right after it sets the offset to 0.
C26_TopThenBottom ==
  [][/\ out'.op = "scrollToTop" => viewportY2' = 2 * scrollbackLength'
     /\ (out.op = "scrollToTop" /\ out'.op = "scrollToBottom")
          => viewportY2' = 0]_vars

C26_Witness ==
  /\ out.op = "scrollToTop" /\ viewportY2 = 2 * scrollbackLength
  /\ scrollbackLength >= 2

\* C27: the text of a one-cell selection made at viewport row r is the text
\* of that cell in the row painted at r, the absolute row
\* scrollbackLength - floor(viewportY) + r.
C27_SelectedIsPainted ==
  (out.op = "getSelection" /\ selectionManager /\ hasSelection(Cur)
     /\ selectionStart = selectionEnd)
    => out.text = cellsText(bufferRow(Cur, toAbsolute(Cur, selectionStart.row)),
                            selectionStart.col, selectionStart.col)

\* C28 as stated: after N lines, N above the number of rows, the scrollback
\* holds N - rows rows.
C28_ScrollbackIsLinesMinusRows ==
  Len(applied) > rows => scrollbackLength = Len(applied) - rows

\* C28: after N lines that each end in a line break, N at least the number
\* of rows, the scrollback holds N - rows + 1 rows: the cursor stands on
\* an empty last row.
C28_ScrollbackAfterLines ==
  Len(applied) >= rows =>
     /\ scrollbackLength = Len(applied) - rows + 1
     /\ cursorY = rows - 1
     /\ \A a \in 0..(scrollbackLength - 1) :
           bufferRow(Cur, a) = LineRow(a, cols)

C28_Witness ==
  /\ out.op = "write" /\ Len(applied) = MaxLines /\ MaxLines > rows
  /\ scrollbackLength = MaxLines - rows + 1

Contains(text, pat) ==
  \E i \in 0..(Len(text) - Len(pat)) : SubSeq(text, i + 1, i + Len(pat)) = pat

C30_SelectionWithinWidth ==
  [][(out'.op = "resize" /\ out'.err = "none" /\ cols' < cols /\ rows' = rows
        /\ termHasSelection(Cur)')
       => /\ selectionStart'.col < cols' /\ selectionEnd'.col < cols'
          /\ selectionStart'.row < rows' /\ selectionEnd'.row < rows'
          /\ Len(getSelection(Cur)') <= (cols' + 1) * rows']_vars

\* The text of the selection read up to the last column of the terminal.
ClampedText ==
  LET n == normalizeSelection(Cur)
      last == IF n.endCol > cols - 1 THEN cols - 1 ELSE n.endCol
  IN rowsText(Cur, [n EXCEPT !.endCol = last], n.startRow)

\* C30: resize leaves the two ends of the selection where they are, and
\* the text read afterwards is the text up to the last column of the
\* terminal: the columns the terminal has lost add nothing to it.
C30_TextClampedToWidth ==
  [][/\ out'.op = "resize" => UNCHANGED << selectionStart, selectionEnd >>
     /\ (out'.op = "getSelection" /\ termHasSelection(Cur))
          => out'.text = ClampedText]_vars

C30_Witness ==
  /\ out.op = "getSelection" /\ cols < InitCols /\ termHasSelection(Cur)
  /\ normalizeSelection(Cur).endCol >= cols
  /\ out.text # <<>> /\ out.text = ClampedText

\* C31: a step of a disposed terminal invokes no listener of onData,
\* onResize, onBell or onSelectionChange, a step of a disposed selection
\* manager invokes no listener of its selection-changed event, and the
\* events that still reach the canvas and the input handler raise no error.
C31_DisposedInert ==
  [][/\ isDisposed => (out'.events = <<>> /\ out'.selectionChanged = 0)
     /\ smDisposed => out'.smChanged = 0
     /\ (isDisposed /\ out'.op \in {"mousedown", "mousemove", "mouseup",
                                    "keyInput", "bell", "selectAll"})
          => out'.err = "none"]_vars

C31_Witness ==
  /\ isDisposed /\ smDisposed /\ out.op = "mouseup" /\ out.copied # <<>>
  /\ out.selectionChanged = 0 /\ out.smChanged = 0 /\ out.err = "none"

\* The rows between the bounds of a selection.
RowsOf(n) == IF n = NoSel THEN {} ELSE n.startRow..n.endRow

\* C32: every row that the last render has highlighted and that is not in
\* the selection any more is between the stored previous-selection bounds.
C32_PreviousCoversUnhighlighted ==
  (RowsOf(highlighted) \ RowsOf(normalizeSelection(Cur)))
     \subseteq RowsOf(previousSelection)

\* C33: the terminal never has two canvases in the container, two live
\* engine instances or two scheduled frames of the render loop.
C33_OneInitialization ==
  dom <= 1 /\ liveEngines <= 1 /\ frames <= 1

\* C34: a disposed terminal is not open, has no canvas in the container
\* and no live engine instance once no load is pending.
C34_DisposedNeverOpen ==
  (isDisposed /\ pendingOpens = 0)
    => (~isOpen /\ dom = 0 /\ liveEngines = 0)

\* C35: an open() that fails leaves the terminal not open, with no canvas
\* in the container, no live engine and no element, and the failure goes
\* to the caller.
C35_FailedOpenReleasesAll ==
  [][(out'.op = "openResume" /\ out'.err # "none")
       => /\ out'.err = "Failed to open terminal"
          /\ ~isOpen' /\ dom' = 0 /\ liveEngines' = 0
          /\ ~element' /\ ~wasmTerm' /\ ~canvas']_vars

\* C36: after a reset() that completes, the selection manager reads the
\* engine instance that the terminal holds, the one the reset created.
C36_ResetRebindsReaders ==
  [][(out'.op = "reset" /\ out'.err = "none" /\ selectionManager')
       => smWasm' = "current"]_vars

\* C37: while a drag is in progress there is a selection, and when no drag
\* is in progress a move or a release of the pointer changes neither end
\* of the selection, starts no drag and copies nothing: after a clear in
\* the middle of a drag nothing happens until the next press.
C37_DragImpliesSelection ==
  [][/\ isSelecting' => (selectionStart' # NoCell /\ selectionEnd' # NoCell)
     /\ (~isSelecting /\ out'.op \in {"mousemove", "mouseup"})
          => /\ UNCHANGED << selectionStart, selectionEnd, isSelecting >>
             /\ out'.copied = <<>> /\ out'.selectionChanged = 0]_vars

C37_Witness ==
  /\ out.op = "mouseup" /\ click.phase = "up"
  /\ ~hasSelection(Cur) /\ ~isSelecting
  /\ previousSelection # NoSel /\ out.copied = <<>>

(***************************************************************************)
(* The demo server (src/unnamed/part_000): MinimalWebSocket over a TCP     *)
(* socket, and the PTY session that connects it to a shell.  Bytes are     *)
(* numbers in 0..255, frames and chunks are sequences of bytes.            *)
(***************************************************************************)

\* Buffer.from(data, 'utf8') and payload.toString('utf8'), for the code
\* points below 2048: one byte below 128, two bytes from there on; a byte
\* that starts no such sequence decodes to U+FFFD.
RECURSIVE toUtf8(_)
toUtf8(text) ==
  IF text = <<>> THEN <<>>
  ELSE LET c == Head(text)
       IN (IF c < 128 THEN << c >>
           ELSE << 192 + (c \div 64), 128 + (c % 64) >>) \o toUtf8(Tail(text))

RECURSIVE fromUtf8(_)
fromUtf8(bytes) ==
  IF bytes = <<>> THEN <<>>
  ELSE LET b == Head(bytes)
       IN IF b < 128 THEN << b >> \o fromUtf8(Tail(bytes))
          ELSE IF /\ b \in 194..223 /\ Len(bytes) >= 2
                  /\ bytes[2] \in 128..191
               THEN << (b - 192) * 64 + (bytes[2] - 128) >>
                      \o fromUtf8(Tail(Tail(bytes)))
               ELSE << 65533 >> \o fromUtf8(Tail(bytes))

\* payload[i] = maskedPayload[i] ^ mask[i % 4], from the offset i on.
RECURSIVE unmask(_, _, _)
unmask(maskedPayload, mask, i) ==
  LET RECURSIVE xor(_, _)
      xor(a, b) ==
        IF a = 0 /\ b = 0 THEN 0
        ELSE ((a + b) % 2) + 2 * xor(a \div 2, b \div 2)
  IN IF i >= Len(maskedPayload) THEN <<>>
     ELSE << xor(maskedPayload[i + 1], mask[(i % 4) + 1]) >>
            \o unmask(maskedPayload, mask, i + 1)

\* parseFrame(): null while the buffer does not hold a whole frame, the
\* frame otherwise, taken off the buffer.

null == [ok |-> FALSE, opcode |-> 0, payload |-> <<>>, buffer |-> <<>>]

parseFrame(buffer) ==
  IF Len(buffer) < 2 THEN null
  ELSE
    LET \* buffer.slice(from, to): the bytes at the offsets from .. to - 1
        slice(from, to) == SubSeq(buffer, from + 1, to)
        \* readUInt16BE(2), readBigUInt64BE(2): the n bytes after the
        \* first two, the most significant first
        RECURSIVE readUIntBE(_)
        readUIntBE(n) ==
          IF n = 0 THEN 0 ELSE 256 * readUIntBE(n - 1) + buffer[2 + n]
        byte1 == buffer[1]
        byte2 == buffer[2]
        opcode == byte1 % 16
        masked == byte2 >= 128
        len7 == byte2 % 128
        offset == IF len7 = 126 THEN 4 ELSE IF len7 = 127 THEN 10 ELSE 2
        payloadLen == IF len7 = 126 THEN readUIntBE(2)
                      ELSE IF len7 = 127 THEN readUIntBE(8)
                      ELSE len7
        maskLen == IF masked THEN 4 ELSE 0
        totalLen == offset + maskLen + payloadLen
    IN IF Len(buffer) < offset \/ Len(buffer) < totalLen THEN null
       ELSE [ok |-> TRUE, opcode |-> opcode,
             payload |->
               IF masked
               THEN unmask(slice(offset + 4, totalLen),
                           slice(offset, offset + 4), 0)
               ELSE slice(offset, totalLen),
             buffer |-> slice(totalLen, Len(buffer))]

\* socket.write(frame): the frame goes out unless the socket has been
\* ended; the write after end() fails and the catch block drops it.
socketWrite(w, bytes) ==
  IF w.ended \/ w.destroyed THEN w ELSE [w EXCEPT !.wire = Append(@, bytes)]

\* send(data): one unmasked text frame.
send(w, data) ==
  LET payload == toUtf8(data)
      len == Len(payload)
  IN IF len < 126 THEN socketWrite(w, << 129, len >> \o payload)
     ELSE socketWrite(w, << 129, 126, len \div 256, len % 256 >> \o payload)

sendPong(w, data) == socketWrite(w, << 138, Len(data) % 256 >> \o data)

\* close(): the close frame, then socket.end().
wsClose(w) == [socketWrite(w, << 136, 0 >>) EXCEPT !.ended = TRUE]

\* JSON.parse(data), for texts without escape sequences, fractions and
\* exponents.  The result says whether the text is JSON, the kind of the
\* value, and for an object the string of its member "type".
JSONparse(data) ==
  LET Thrown == [ok |-> FALSE, next |-> 0, kind |-> "none",
                 str |-> <<>>, type |-> <<>>]
      Value(next, kind, str, type) ==
        [ok |-> TRUE, next |-> next, kind |-> kind, str |-> str, type |-> type]
      at(i, c) == i <= Len(data) /\ data[i] = c
      startsWith(i, word) ==
        /\ i + Len(word) - 1 <= Len(data)
        /\ SubSeq(data, i, i + Len(word) - 1) = word
      RECURSIVE skipWs(_)
      skipWs(i) ==
        IF i <= Len(data) /\ data[i] \in {9, 10, 13, Space}
        THEN skipWs(i + 1) ELSE i
      RECURSIVE digitsEnd(_)
      digitsEnd(i) ==
        IF i <= Len(data) /\ data[i] \in 48..57 THEN digitsEnd(i + 1) ELSE i
      \* the index of the quote that closes the string, 0 when none does
      RECURSIVE stringEnd(_)
      stringEnd(i) ==
        IF i > Len(data) \/ data[i] < 32 \/ data[i] = 92 THEN 0
        ELSE IF data[i] = 34 THEN i
        ELSE stringEnd(i + 1)
      RECURSIVE parseValue(_)
      RECURSIVE parseMembers(_, _)
      RECURSIVE parseElements(_)
      parseValue(i0) ==
        LET i == skipWs(i0)
        IN IF i > Len(data) THEN Thrown
           ELSE IF data[i] = 34
                THEN LET e == stringEnd(i + 1)
                     IN IF e = 0 THEN Thrown
                        ELSE Value(e + 1, "string",
                                   SubSeq(data, i + 1, e - 1), <<>>)
           ELSE IF data[i] = 48 THEN Value(i + 1, "number", <<>>, <<>>)
           ELSE IF data[i] \in 49..57
                THEN Value(digitsEnd(i), "number", <<>>, <<>>)
           ELSE IF startsWith(i, << 110, 117, 108, 108 >>)
                THEN Value(i + 4, "null", <<>>, <<>>)
           ELSE IF startsWith(i, << 116, 114, 117, 101 >>)
                THEN Value(i + 4, "boolean", <<>>, <<>>)
           ELSE IF startsWith(i, << 102, 97, 108, 115, 101 >>)
                THEN Value(i + 5, "boolean", <<>>, <<>>)
           ELSE IF data[i] = 123
                THEN IF at(skipWs(i + 1), 125)
                     THEN Value(skipWs(i + 1) + 1, "object", <<>>, <<>>)
                     ELSE parseMembers(i + 1, <<>>)
           ELSE IF data[i] = 91
                THEN IF at(skipWs(i + 1), 93)
                     THEN Value(skipWs(i + 1) + 1, "array", <<>>, <<>>)
                     ELSE parseElements(i + 1)
           ELSE Thrown
      \* the members of an object from the index i on, to the closing brace
      parseMembers(i, type) ==
        LET key == parseValue(i)
            colon == skipWs(key.next)
            value == parseValue(colon + 1)
            sep == skipWs(value.next)
            type1 == IF key.str = << 116, 121, 112, 101 >>
                     THEN (IF value.kind = "string" THEN value.str ELSE <<>>)
                     ELSE type
        IN IF ~key.ok \/ key.kind # "string" THEN Thrown
           ELSE IF ~at(colon, 58) THEN Thrown
           ELSE IF ~value.ok THEN Thrown
           ELSE IF at(sep, 125) THEN Value(sep + 1, "object", <<>>, type1)
           ELSE IF at(sep, 44) THEN parseMembers(sep + 1, type1)
           ELSE Thrown
      parseElements(i) ==
        LET value == parseValue(i)
            sep == skipWs(value.next)
        IN IF ~value.ok THEN Thrown
           ELSE IF at(sep, 93) THEN Value(sep + 1, "array", <<>>, <<>>)
           ELSE IF at(sep, 44) THEN parseElements(sep + 1)
           ELSE Thrown
      v == parseValue(1)
  IN IF v.ok /\ skipWs(v.next) > Len(data) THEN v ELSE Thrown

\* JSON.stringify({ type: 'resize', cols: c, rows: r }).
resizeMessage(c, r) ==
  LET RECURSIVE decimal(_)
      decimal(n) ==
        IF n < 10 THEN << 48 + n >>
        ELSE decimal(n \div 10) \o << 48 + (n % 10) >>
  IN
  << 123, 34, 116, 121, 112, 101, 34, 58,
     34, 114, 101, 115, 105, 122, 101, 34, 44,
     34, 99, 111, 108, 115, 34, 58 >> \o decimal(c)
    \o << 44, 34, 114, 111, 119, 115, 34, 58 >> \o decimal(r) \o << 125 >>

\* ptyProcess.stdin.write(data): the text goes to the shell while it runs.
stdinWrite(w, data) ==
  IF w.exited THEN w ELSE [w EXCEPT !.stdin = Append(@, data)]

\* The 'message' listener of handlePTYSession: the text is written to the
\* shell when JSON.parse throws, or when reading msg.type throws because
\* the text is the JSON null.
onMessage(w, data) ==
  LET msg == JSONparse(data)
  IN IF ~msg.ok \/ msg.kind = "null" THEN stdinWrite(w, data) ELSE w

emitMessage(w, data) ==
  onMessage([w EXCEPT !.messages = Append(@, data)], data)

\* The loop of handleData over the frames that the buffer holds.
RECURSIVE parseLoop(_)
parseLoop(w) ==
  IF Len(w.buffer) < 2 THEN w
  ELSE LET fr == parseFrame(w.buffer)
           w1 == [w EXCEPT !.buffer = fr.buffer]
       IN IF ~fr.ok THEN w
          ELSE IF fr.opcode = 1
               THEN parseLoop(emitMessage(w1, fromUtf8(fr.payload)))
          ELSE IF fr.opcode = 8 THEN wsClose(w1)
          ELSE IF fr.opcode = 9
               THEN parseLoop(sendPong(w1, fr.payload))
          ELSE parseLoop(w1)

handleData(w, data) == parseLoop([w EXCEPT !.buffer = @ \o data])

\* What the browser puts on the wire: a masked frame.
clientFrame(opcode, payload, mask) ==
  << 128 + opcode, 128 + Len(payload) >> \o mask
    \o unmask(payload, mask, 0)

\* The masking key of the browser's frames.
Mask == << 55, 250, 33, 61 >>

\* Texts that the terminal hands to onData: the key 1, the Enter key, the
\* key e with an acute accent, and the pasted word null.
Keys == { << 49 >>, << 13 >>, << 233 >>, << 110, 117, 108, 108 >> }

\* The browser's ws.send on an open connection: the bytes are in flight.
peerSend(op, bytes) ==
  /\ ~ws.destroyed /\ ws.peerFrames < MaxFrames
  /\ Commit([Call(op) EXCEPT !.ws.inflight = @ \o bytes,
                             !.ws.peerFrames = @ + 1])

\* term.onData of the demo page: ws.send(data).
clientData ==
  \E data \in Keys :
     peerSend("clientData", clientFrame(1, toUtf8(data), Mask))

\* term.onResize of the demo page: the resize control message.
clientResize ==
  /\ peerSend("clientResize",
              clientFrame(1, toUtf8(resizeMessage(cols, rows)), Mask))

\* The browser closes the connection, or sends a ping.
clientClose ==
  /\ peerSend("clientClose", clientFrame(8, <<>>, Mask))

clientPing ==
  /\ peerSend("clientPing", clientFrame(9, << 112 >>, Mask))

\* The socket's 'data' event with the next n bytes that are in flight.
socketData ==
  /\ ~ws.destroyed
  /\ \E n \in 1..Len(ws.inflight) :
       LET s == Call("socketData")
           chunk == SubSeq(s.ws.inflight, 1, n)
           w == [s.ws EXCEPT !.inflight = SubSeq(@, n + 1, Len(@)),
                             !.stream = @ \o chunk]
       IN Commit([s EXCEPT !.ws = handleData(w, chunk)])

\* The shell prints "$ ": ws.send(data.toString()).
ptyStdout ==
  /\ ~ws.exited /\ Len(ws.wire) < MaxFrames
  /\ LET s == Call("ptyStdout")
     IN Commit([s EXCEPT !.ws = send(@, << 36, Space >>)])

\* The shell exits: ws.close().
ptyExit ==
  /\ ~ws.exited
  /\ LET s == Call("ptyExit")
     IN Commit([s EXCEPT !.ws = wsClose([@ EXCEPT !.exited = TRUE])])

\* The socket's 'close' event: the 'close' listener kills the shell.
socketClose ==
  /\ ~ws.destroyed
  /\ LET s == Call("socketClose")
     IN Commit([s EXCEPT !.ws = [@ EXCEPT !.destroyed = TRUE,
                                          !.inflight = <<>>]])

WsInit == Is(Opened)

WsNext ==
  \/ clientData
  \/ clientResize
  \/ clientClose
  \/ clientPing
  \/ socketData
  \/ ptyStdout
  \/ ptyExit
  \/ socketClose

WsSpec == WsInit /\ [][WsNext]_vars

\* C38: while the shell runs, its stdin has received the text messages
\* that are not resize control messages, all of them and in the order of
\* their arrival.
C38_InputReachesShell ==
  LET isResize(d) ==
        /\ JSONparse(d).ok /\ JSONparse(d).kind = "object"
        /\ JSONparse(d).type = << 114, 101, 115, 105, 122, 101 >>
  IN ~ws.exited
       => ws.stdin = SelectSeq(ws.messages, LAMBDA d : ~isResize(d))

\* C39: the 'message' events emitted for the bytes received so far are the
\* ones that the same bytes give when they arrive in one chunk.
C39_ChunkingInvisible ==
  ws.messages = handleData(NewSocket, ws.stream).messages

\* C40: once close() has run, for a close frame received or on the call of
\* the session, no 'message' event is emitted and no frame is sent.
C40_SilentAfterClose ==
  [][ws.ended => (ws'.messages = ws.messages /\ ws'.wire = ws.wire)]_vars

====
